---- MODULE Spec2Model ----
(***************************************************************************)
(* The guide-RNA design core of the CRISPR design dashboard:               *)
(* src/src/utils/sequence_tools.py and src/src/utils/scoring_algorithms.py *)
(*                                                                         *)
(* A Python string is a sequence of one-character strings.  Python         *)
(* indices are 0-based and are kept 0-based in every definition that       *)
(* models code; At(s, i) reads s[i].  A Python float that the code         *)
(* obtains by dividing small integers is the rational <<n, d>>, d > 0.     *)
(***************************************************************************)
EXTENDS Integers, Sequences, FiniteSets, TLC

VARIABLES
    pc,          \* which operation returned last
    sequence,    \* the DNA sequence handed to the operations
    pam_type,    \* the profile identifier handed to find_pam_sites
    sites_in,    \* the site list handed to design_grnas
    gc_min,      \* the GC filter handed to design_grnas, rationals
    gc_max,
    pam_sites,   \* what find_pam_sites returned
    grnas,       \* the candidate list, as the last operation left it
    outcome,     \* "ok", or the exception the last operation raised
    ui,          \* the messages put on the page (st.info, st.error, ...)
    file,        \* the rows of the uploaded batch file, as pandas parsed them
    calls,       \* the core operations app.py has invoked, with the sequence
                 \* handed to each and what it returned, in order
    shown,       \* the candidates app.py has handed to a table on the page
    options      \* the other widget values: efficiency_threshold,
                 \* max_off_targets, show_all, has_headers

vars ==
    <<pc, sequence, pam_type, sites_in, gc_min, gc_max, pam_sites, grnas, outcome, ui,
      file, calls, shown, options>>

(***************************************************************************)
(* Strings                                                                 *)
(***************************************************************************)
Bases == {"A", "T", "G", "C"}

\* The characters the model knows: the bases, their lower-case forms, the
\* two kinds of white space the code strips, and the ambiguity code N.
Chars == Bases \cup {"a", "t", "g", "c", " ", "\n", "N"}

At(s, i) == s[i + 1]

Min(a, b) == IF a <= b THEN a ELSE b
Max(a, b) == IF a >= b THEN a ELSE b

\* s[a:b] for 0 <= a, 0 <= b: Python clamps both ends to len(s).
Slice(s, a, b) == SubSeq(s, Min(a, Len(s)) + 1, Min(b, Len(s)))

\* All strings over alphabet of length lo..hi.
Strings(alphabet, lo, hi) == UNION {[1..n -> alphabet] : n \in lo..hi}

\* str.upper() on one character.
upper_char(c) ==
    CASE c = "a" -> "A"
      [] c = "t" -> "T"
      [] c = "g" -> "G"
      [] c = "c" -> "C"
      [] OTHER -> c

\* sequence.upper().replace(" ", "").replace("\n", "")
clean(s) ==
    LET up == [i \in 1..Len(s) |-> upper_char(s[i])]
        no_space == SelectSeq(up, LAMBDA c : c # " ")
    IN  SelectSeq(no_space, LAMBDA c : c # "\n")

\* The values the widgets of app.py start with: the two score sliders, the
\* 'Show All Candidates' box and the 'File has headers' box.
DefaultOptions ==
    [efficiency_threshold |-> <<1, 2>>, max_off_targets |-> <<50, 1>>,
     show_all |-> FALSE, has_headers |-> TRUE]

(***************************************************************************)
(* find_pam_sites                                                          *)
(***************************************************************************)
SpCas9 == "SpCas9 (NGG)"
SaCas9 == "SaCas9 (NNGRRT)"
Cas12a == "Cas12a (TTTV)"

\* "." of a regular expression: any character but a line break.
Dot == Chars \ {"\n"}

\* The dictionary pam_patterns: each value "(?=...)" is a lookahead over a
\* sequence of character classes.
pam_patterns ==
    (SpCas9 :> <<Dot, {"G"}, {"G"}>>)
    @@ (SaCas9 :> <<Dot, Dot, {"G", "A"}, {"A", "G"}, {"A", "G"}, {"T"}>>)
    @@ (Cas12a :> <<{"T"}, {"T"}, {"T"}, {"A", "C", "G"}>>)

\* Whether the lookahead succeeds at 0-based position pos of s.
lookahead(pattern, s, pos) ==
    /\ pos + Len(pattern) <= Len(s)
    /\ \A k \in 1..Len(pattern) : s[pos + k] \in pattern[k]

RECURSIVE finditer_from(_, _, _, _)
\* The scan of re.finditer from position pos: a lookahead matches the empty
\* string, so each match is reported at pos and the scan resumes at pos + 1.
finditer_from(pattern, s, pos, acc) ==
    IF pos > Len(s) THEN acc
    ELSE finditer_from(pattern, s, pos + 1,
                       IF lookahead(pattern, s, pos) THEN Append(acc, pos) ELSE acc)

RECURSIVE consuming_from(_, _, _, _)
consuming_from(pattern, s, pos, acc) ==
    IF pos > Len(s) THEN acc
    ELSE IF lookahead(pattern, s, pos)
         THEN consuming_from(pattern, s, pos + Len(pattern), Append(acc, pos))
         ELSE consuming_from(pattern, s, pos + 1, acc)

\* A scan whose pattern consumes what it matches ("(.GG)" for "(?=.GG)").
finditer_consuming(pattern, s) == consuming_from(pattern, s, 0, <<>>)

\* [m.start() for m in re.finditer(pattern, sequence)]
finditer(pattern, s) == finditer_from(pattern, s, 0, <<>>)

\* if not sites: if pam_type == "Cas12a (TTTV)": st.info(...)
no_sites_info(sites, ptype) ==
    IF sites = <<>> /\ ptype = Cas12a THEN <<"info: no Cas12a PAM sites">> ELSE <<>>

\* A lookup that falls back to the SpCas9 pattern for an unknown profile.
find_pam_sites_default(seq, ptype) ==
    LET sites == finditer(IF ptype \in DOMAIN pam_patterns
                          THEN pam_patterns[ptype] ELSE pam_patterns[SpCas9],
                          clean(seq))
    IN  [raised |-> "ok", sites |-> sites, info |-> no_sites_info(sites, ptype)]

\* A version that takes the first site for granted: sites[0] raises
\* IndexError when the scan finds nothing.
find_pam_sites_first(seq, ptype) ==
    IF ptype \notin DOMAIN pam_patterns
    THEN [raised |-> "KeyError", sites |-> <<>>, info |-> <<>>]
    ELSE IF finditer(pam_patterns[ptype], clean(seq)) = <<>>
         THEN [raised |-> "IndexError", sites |-> <<>>, info |-> <<>>]
         ELSE [raised |-> "ok", sites |-> finditer(pam_patterns[ptype], clean(seq)),
               info |-> <<>>]

\* find_pam_sites(sequence, pam_type): the list of sites and the messages
\* shown, or the KeyError of pam_patterns[pam_type].
find_pam_sites(seq, ptype) ==
    IF ptype \notin DOMAIN pam_patterns
    THEN [raised |-> "KeyError", sites |-> <<>>, info |-> <<>>]
    ELSE LET sites == finditer(pam_patterns[ptype], clean(seq))
         IN  [raised |-> "ok", sites |-> sites, info |-> no_sites_info(sites, ptype)]

(***************************************************************************)
(* Numbers: the rational n/d is <<n, d>> with d > 0.                       *)
(***************************************************************************)
Leq(a, b) == a[1] * b[2] <= b[1] * a[2]
Less(a, b) == a[1] * b[2] < b[1] * a[2]
Same(a, b) == a[1] * b[2] = b[1] * a[2]

\* percent / 100, as the callers in app.py form gc_min and gc_max
Percent(p) == <<p, 100>>

\* How many characters of s lie in set.
Count(s, set) == Cardinality({i \in DOMAIN s : s[i] \in set})

\* Bio.SeqUtils.gc_fraction(seq) in its default mode: G, C over the
\* unambiguous letters, and 0 for a string with none.
gc_fraction(s) ==
    LET gc == Count(s, {"G", "C", "g", "c"})
        length == gc + Count(s, {"A", "T", "a", "t"})
    IN  IF length = 0 THEN <<0, 1>> ELSE <<gc, length>>

RECURSIVE GCD(_, _)
GCD(a, b) == IF b = 0 THEN a ELSE GCD(b, a % b)

Abs(n) == IF n < 0 THEN -n ELSE n

\* n/d in lowest terms.
Norm(q) ==
    LET g == GCD(Abs(q[1]), q[2])
    IN  <<q[1] \div g, q[2] \div g>>

Add(a, b) == Norm(<<a[1] * b[2] + b[1] * a[2], a[2] * b[2]>>)
Sub(a, b) == Norm(<<a[1] * b[2] - b[1] * a[2], a[2] * b[2]>>)
Mul(a, b) == Norm(<<a[1] * b[1], a[2] * b[2]>>)
\* a / b for b > 0
Div(a, b) == Norm(<<a[1] * b[2], a[2] * b[1]>>)

\* round(q, 1) for q >= 0: the nearest multiple of 1/10, a tie going to the
\* even one (the ties the code meets are exact binary fractions).
round1(q) ==
    LET n == 10 * q[1]
        fl == n \div q[2]
        rem == n % q[2]
    IN  IF 2 * rem < q[2] THEN <<fl, 10>>
        ELSE IF 2 * rem > q[2] THEN <<fl + 1, 10>>
        ELSE IF fl % 2 = 0 THEN <<fl, 10>> ELSE <<fl + 1, 10>>

(***************************************************************************)
(* design_grnas                                                            *)
(***************************************************************************)
\* The guide is the 20 bases before the site.
GuideLen == 20

\* The 'pam' attribute is the 3 bases from the site on.
PamLen == 3

\* The candidate with the guide taken one base later: the 20 bases that end
\* with the base at the site.
candidate_shifted(seq, site) ==
    LET grna_seq == Slice(seq, site - GuideLen + 1, site + 1)
    IN  [sequence   |-> grna_seq,
         pam        |-> Slice(seq, site, site + PamLen),
         position   |-> site - GuideLen + 1,
         gc_content |-> gc_fraction(grna_seq)]

\* The candidate design_grnas appends for site.
candidate(seq, site) ==
    LET grna_seq == Slice(seq, site - GuideLen, site)
    IN  [sequence   |-> grna_seq,
         pam        |-> Slice(seq, site, site + PamLen),
         position   |-> site - GuideLen,
         gc_content |-> gc_fraction(grna_seq)]

\* The two tests a site passes to give a candidate.
passes(seq, site, gmin, gmax) ==
    /\ site >= GuideLen
    /\ Leq(gmin, candidate(seq, site).gc_content)
    /\ Leq(candidate(seq, site).gc_content, gmax)

RECURSIVE design_loop(_, _, _, _, _)
\* for site in pam_sites: ... grnas.append(...)
design_loop(seq, sites, gmin, gmax, acc) ==
    IF sites = <<>> THEN acc
    ELSE design_loop(seq, Tail(sites), gmin, gmax,
                     IF passes(seq, Head(sites), gmin, gmax)
                     THEN Append(acc, candidate(seq, Head(sites)))
                     ELSE acc)

RECURSIVE design_loop_strict(_, _, _, _, _)
design_loop_strict(seq, sites, gmin, gmax, acc) ==
    IF sites = <<>> THEN acc
    ELSE design_loop_strict(seq, Tail(sites), gmin, gmax,
                     IF /\ Head(sites) >= GuideLen
                        /\ Less(gmin, candidate(seq, Head(sites)).gc_content)
                        /\ Less(candidate(seq, Head(sites)).gc_content, gmax)
                     THEN Append(acc, candidate(seq, Head(sites)))
                     ELSE acc)

\* A filter with both ends exclusive: gc_min < gc_content < gc_max.
design_grnas_strict(seq, sites, gmin, gmax) ==
    design_loop_strict(seq, sites, gmin, gmax, <<>>)

RECURSIVE design_loop_front(_, _, _, _, _)
design_loop_front(seq, sites, gmin, gmax, acc) ==
    IF sites = <<>> THEN acc
    ELSE design_loop_front(seq, Tail(sites), gmin, gmax,
                     IF passes(seq, Head(sites), gmin, gmax)
                     THEN <<candidate(seq, Head(sites))>> \o acc
                     ELSE acc)

\* A loop that puts each new candidate at the front: grnas.insert(0, ...).
design_grnas_front(seq, sites, gmin, gmax) ==
    design_loop_front(seq, sites, gmin, gmax, <<>>)

\* design_grnas(sequence, pam_sites, gc_min, gc_max)
design_grnas(seq, sites, gmin, gmax) == design_loop(seq, sites, gmin, gmax, <<>>)

(***************************************************************************)
(* CRISPRScoring                                                           *)
(***************************************************************************)
\* gc_score with the plateau at 40-60% instead of 45-65%.
gc_score_narrow(s) ==
    LET gc == gc_fraction(s)
    IN  IF Leq(<<40, 100>>, gc) /\ Leq(gc, <<60, 100>>) THEN <<1, 1>>
        ELSE IF Less(gc, <<40, 100>>) THEN Div(gc, <<40, 100>>)
        ELSE Div(Sub(<<1, 1>>, gc), <<40, 100>>)

\* gc_score(sequence)
gc_score(s) ==
    LET gc == gc_fraction(s)
    IN  IF Leq(<<45, 100>>, gc) /\ Leq(gc, <<65, 100>>) THEN <<1, 1>>
        ELSE IF Less(gc, <<45, 100>>) THEN Div(gc, <<45, 100>>)
        ELSE Div(Sub(<<1, 1>>, gc), <<35, 100>>)

\* complement.get(base, base)
complement(base) ==
    CASE base = "A" -> "T"
      [] base = "T" -> "A"
      [] base = "G" -> "C"
      [] base = "C" -> "G"
      [] OTHER -> base

\* ''.join(complement.get(base, base) for base in reversed(sequence))
rev_comp(s) == [i \in 1..Len(s) |-> complement(s[Len(s) + 1 - i])]

\* region in text
Contains(text, region) ==
    \E p \in 0..(Len(text) - Len(region)) :
        SubSeq(text, p + 1, p + Len(region)) = region

SetMax(S) == CHOOSE m \in S : \A x \in S : x <= m

\* The longest region sequence[i:j], over the pairs the two loops visit
\* (i in range(seq_len - 4), j in range(i + 5, seq_len)), that occurs in
\* the reverse complement; 0 when none does.
max_complementary(s) ==
    LET seq_len == Len(s)
        rc == rev_comp(s)
    IN  SetMax({0} \cup
               {j - i : <<i, j>> \in
                   {p \in (0..(seq_len - 5)) \X (5..(seq_len - 1)) :
                       /\ p[2] >= p[1] + 5
                       /\ Contains(rc, Slice(s, p[1], p[2]))}})

\* self_complementarity_score without the branch for 12 bases or more.
self_complementarity_score_unclamped(s) ==
    LET m == max_complementary(s)
    IN  IF m < 5 THEN <<1, 1>>
        ELSE Sub(<<1, 1>>, <<m - 5, 7>>)

\* self_complementarity_score(sequence)
self_complementarity_score(s) ==
    LET m == max_complementary(s)
    IN  IF m < 5 THEN <<1, 1>>
        ELSE IF m >= 12 THEN <<0, 1>>
        ELSE Sub(<<1, 1>>, <<m - 5, 7>>)

RECURSIVE run_loop(_, _, _, _, _)
\* The loop of get_homopolymer_run from index i on.
run_loop(s, base, i, max_run, current_run) ==
    IF i >= Len(s) THEN max_run
    ELSE IF At(s, i) = At(s, i - 1) /\ At(s, i - 1) = base
         THEN run_loop(s, base, i + 1, Max(max_run, current_run + 1), current_run + 1)
         ELSE run_loop(s, base, i + 1, max_run, 1)

RECURSIVE run_loop_noreset(_, _, _, _, _)
\* The loop without its else branch: current_run is never set back to 1.
run_loop_noreset(s, base, i, max_run, current_run) ==
    IF i >= Len(s) THEN max_run
    ELSE IF At(s, i) = At(s, i - 1) /\ At(s, i - 1) = base
         THEN run_loop_noreset(s, base, i + 1, Max(max_run, current_run + 1),
                               current_run + 1)
         ELSE run_loop_noreset(s, base, i + 1, max_run, current_run)

get_homopolymer_run_noreset(s, base) == run_loop_noreset(s, base, 1, 1, 1)

\* get_homopolymer_run(seq, base): max_run and current_run start at 1.
get_homopolymer_run(s, base) == run_loop(s, base, 1, 1, 1)

\* 1.0 if run <= lo else 0.0 if run >= lo + 2 else 1 - ((run - lo) / 2)
run_score(run, lo) ==
    IF run <= lo THEN <<1, 1>>
    ELSE IF run >= lo + 2 THEN <<0, 1>>
    ELSE Sub(<<1, 1>>, <<run - lo, 2>>)

\* homopolymer_score(sequence)
homopolymer_score(s) ==
    LET t_score == run_score(get_homopolymer_run(s, "T"), 2)
        a_score == run_score(get_homopolymer_run(s, "A"), 3)
        g_score == run_score(get_homopolymer_run(s, "G"), 3)
        c_score == run_score(get_homopolymer_run(s, "C"), 3)
    IN  Add(Add(Mul(<<4, 10>>, t_score), Mul(<<2, 10>>, a_score)),
            Add(Mul(<<2, 10>>, g_score), Mul(<<2, 10>>, c_score)))

\* The table preferences of position_score, in tenths, by 1-based position.
preferences ==
    (1 :> [G |-> 9, A |-> 6, C |-> 4, T |-> 2])
    @@ (2 :> [G |-> 3, A |-> 8, C |-> 4, T |-> 3])
    @@ (3 :> [G |-> 6, A |-> 6, C |-> 4, T |-> 3])
    @@ (4 :> [G |-> 5, A |-> 5, C |-> 5, T |-> 4])
    @@ (16 :> [G |-> 7, A |-> 5, C |-> 3, T |-> 3])
    @@ (17 :> [G |-> 8, A |-> 4, C |-> 3, T |-> 2])
    @@ (18 :> [G |-> 7, A |-> 4, C |-> 4, T |-> 3])
    @@ (19 :> [G |-> 6, A |-> 5, C |-> 4, T |-> 3])
    @@ (20 :> [G |-> 8, A |-> 4, C |-> 3, T |-> 2])

\* weights.get(base, 0.3), in tenths
weight_of(weights, base) == IF base \in DOMAIN weights THEN weights[base] ELSE 3

RECURSIVE SetSum(_, _)
\* The sum of f over the finite set S.
SetSum(S, f) ==
    IF S = {} THEN 0
    ELSE LET x == CHOOSE y \in S : TRUE
         IN  f[x] + SetSum(S \ {x}, f)

\* position_score with pos < len(sequence) for pos <= len(sequence).
position_score_strict(s) ==
    LET scored == {pos \in DOMAIN preferences : pos < Len(s)}
        score == SetSum(scored, [pos \in scored |-> weight_of(preferences[pos], s[pos])])
        count == Cardinality(scored)
    IN  IF count > 0 THEN Norm(<<score, 10 * count>>) ELSE <<5, 10>>

\* position_score(sequence)
position_score(s) ==
    LET scored == {pos \in DOMAIN preferences : pos <= Len(s)}
        score == SetSum(scored, [pos \in scored |-> weight_of(preferences[pos], s[pos])])
        count == Cardinality(scored)
    IN  IF count > 0 THEN Norm(<<score, 10 * count>>) ELSE <<5, 10>>

\* The dictionary weights of calculate_all_scores.
score_weights ==
    [gc_score |-> <<25, 100>>, self_complementarity |-> <<25, 100>>,
     homopolymer |-> <<2, 10>>, position |-> <<3, 10>>]

\* The sum with every weight 0.25.
weighted_sum_equal(scores) ==
    Mul(<<25, 100>>,
        Add(Add(scores.gc_score, scores.self_complementarity),
            Add(scores.homopolymer, scores.position)))

\* sum(scores[k] * weights[k] for k in scores)
weighted_sum(scores) ==
    Add(Add(Mul(scores.gc_score, score_weights.gc_score),
            Mul(scores.self_complementarity, score_weights.self_complementarity)),
        Add(Mul(scores.homopolymer, score_weights.homopolymer),
            Mul(scores.position, score_weights.position)))

\* calculate_all_scores(sequence)
calculate_all_scores(s) ==
    LET scores == [gc_score |-> gc_score(s),
                   self_complementarity |-> self_complementarity_score(s),
                   homopolymer |-> homopolymer_score(s),
                   position |-> position_score(s)]
    IN  [final_score |-> weighted_sum(scores)] @@ scores

(***************************************************************************)
(* predict_grna_efficiency and check_off_targets                           *)
(***************************************************************************)
\* The body of the loop of predict_grna_efficiency: five keys are set on the
\* candidate's dictionary, 'position' among them.
scored_grna(grna) ==
    LET scores == calculate_all_scores(grna.sequence)
    IN  [efficiency_score |-> scores.final_score,
         gc_score |-> scores.gc_score,
         self_complementarity |-> scores.self_complementarity,
         homopolymer |-> scores.homopolymer,
         position |-> scores.position] @@ grna

\* predict_grna_efficiency(grnas)
predict_grna_efficiency(gs) == [k \in DOMAIN gs |-> scored_grna(gs[k])]

\* The count with == for !=: the positions where guide and window agree.
mismatches_equal(s, window) ==
    Cardinality({k \in 1..Min(Len(s), Len(window)) : s[k] = window[k]})

\* sum(a != b for a, b in zip(sequence, window))
mismatches(s, window) ==
    Cardinality({k \in 1..Min(Len(s), Len(window)) : s[k] # window[k]})

\* The mismatch threshold of check_off_targets.
MaxMismatches == 4

\* 1.0 / (2 ** mismatches)
window_weight(m) == <<1, 2 ^ m>>

\* range(n)
py_range(n) == [k \in 1..Max(n, 0) |-> k - 1]

\* The offsets of range(len(target_sequence) - len(sequence) + 1).
window_offsets_all(s, target) == py_range(Len(target) - Len(s) + 1)

\* The offsets i of the loop, in the order it visits them:
\* range(len(target_sequence) - len(sequence)).
window_offsets(s, target) == py_range(Len(target) - Len(s))

RECURSIVE window_loop_flipped(_, _, _, _, _, _)
\* The loop with its comparison turned round: mismatches >= t.
window_loop_flipped(s, target, offsets, k, t, acc) ==
    IF k > Len(offsets) THEN acc
    ELSE LET i == offsets[k]
             m == mismatches(s, Slice(target, i, i + Len(s)))
         IN  window_loop_flipped(s, target, offsets, k + 1, t,
                                 IF m >= t THEN Add(acc, window_weight(m)) ELSE acc)

RECURSIVE window_loop(_, _, _, _, _, _)
\* The body of the loop for the k-th offset and those after it, with the
\* threshold of the test 'mismatches <= 4' as t; acc is off_target_score
\* so far.
window_loop(s, target, offsets, k, t, acc) ==
    IF k > Len(offsets) THEN acc
    ELSE LET i == offsets[k]
             m == mismatches(s, Slice(target, i, i + Len(s)))
         IN  window_loop(s, target, offsets, k + 1, t,
                         IF m <= t THEN Add(acc, window_weight(m)) ELSE acc)

\* No min(100, x).
min100_off(x) == x

\* min(100, x)
min100(x) == IF Less(x, <<100, 1>>) THEN x ELSE <<100, 1>>

\* The value check_off_targets would attach for guide s were its threshold t.
off_target_score_at(s, target, t) ==
    LET sum == window_loop(s, target, window_offsets(s, target), 1, t, <<0, 1>>)
        normalized_score == min100(Mul(sum, <<20, 1>>))
    IN  round1(normalized_score)

\* The off_target_score check_off_targets attaches for guide s.
off_target_score(s, target) == off_target_score_at(s, target, MaxMismatches)

\* check_off_targets(grnas, target_sequence)
check_off_targets(gs, target) ==
    [k \in DOMAIN gs |->
        [off_target_score |-> off_target_score(gs[k].sequence, target)] @@ gs[k]]

(***************************************************************************)
(* The operations as actions.  pc says which operation returned last:      *)
(* "start" (none yet), "found" (find_pam_sites), "designed" (design_grnas),*)
(* "scored" (predict_grna_efficiency), "checked" (check_off_targets), or   *)
(* "failed" (the operation raised and nothing was returned).               *)
(***************************************************************************)
Profiles == {SpCas9, SaCas9, Cas12a}

\* Identifiers that are not keys of pam_patterns.
UnknownProfiles == {"SpCas9"}

\* Longest sequence handed to find_pam_sites alone.
MaxLen == 6

Zero == <<0, 1>>
One == <<1, 1>>

\* pam_sites = find_pam_sites(sequence, pam_type)
FindPamSites ==
    /\ pc = "start"
    /\ LET r == find_pam_sites(sequence, pam_type)
       IN  /\ outcome' = r.raised
           /\ pc' = IF r.raised = "ok" THEN "found" ELSE "failed"
           /\ pam_sites' = IF r.raised = "ok" THEN r.sites ELSE pam_sites
           /\ ui' = ui \o r.info
    /\ UNCHANGED <<sequence, pam_type, sites_in, gc_min, gc_max, grnas, file, calls, shown, options>>

\* find_pam_sites called on its own, with any short sequence over the bases
\* and any profile identifier.
InitPam ==
    /\ pc = "start"
    /\ sequence \in Strings(Bases, 1, MaxLen)
    /\ pam_type \in Profiles \cup UnknownProfiles
    /\ sites_in = <<>>
    /\ gc_min = Zero
    /\ gc_max = One
    /\ pam_sites = <<>>
    /\ grnas = <<>>
    /\ outcome = "ok"
    /\ ui = <<>>
    /\ file = <<>>
    /\ calls = <<>>
    /\ shown = <<>>
    /\ options = DefaultOptions

NextPam == FindPamSites

SpecPam == InitPam /\ [][NextPam]_vars

\* The body of a call grnas = design_grnas(sequence, sites, gmin, gmax).
Design(sites, gmin, gmax) ==
    /\ sites_in' = sites
    /\ gc_min' = gmin
    /\ gc_max' = gmax
    /\ grnas' = design_grnas(sequence, sites, gmin, gmax)
    /\ pc' = "designed"
    /\ outcome' = "ok"
    /\ UNCHANGED <<sequence, pam_type, pam_sites, ui, file, calls, shown, options>>

\* The unit u repeated to length n.
Cycle(u, n) == [i \in 1..n |-> u[((i - 1) % Len(u)) + 1]]

\* Longest repeated unit of a generated sequence.
MaxUnit == 2

\* Longest site list handed to design_grnas directly.
MaxSites == 2

\* The GC bounds tried, in percent.
GcPercents == {0, 40, 50, 100}

GcRanges == {r \in GcPercents \X GcPercents : r[1] <= r[2]}

\* Sequences for a direct call of design_grnas: room for the guides that
\* end at 20, 21 and 22.
DesignSeqs == {Cycle(u, GuideLen + 2) : u \in Strings(Bases, 1, MaxUnit)}

\* Sites around both ends of the valid range GuideLen..len(seq), and one so
\* far beyond the end that nothing of the sequence is left for the guide.
SiteSet(seq) ==
    {0, GuideLen - 1, GuideLen, GuideLen + 1,
     Len(seq), Len(seq) + 1, Len(seq) + GuideLen}

\* design_grnas called on its own, with any list of sites.
DesignGrnasDirect ==
    /\ pc = "start"
    /\ \E sites \in Strings(SiteSet(sequence), 0, MaxSites) :
        \E r \in GcRanges : Design(sites, Percent(r[1]), Percent(r[2]))

InitDesign ==
    /\ pc = "start"
    /\ sequence \in DesignSeqs
    /\ pam_type = SpCas9
    /\ sites_in = <<>>
    /\ gc_min = Zero
    /\ gc_max = One
    /\ pam_sites = <<>>
    /\ grnas = <<>>
    /\ outcome = "ok"
    /\ ui = <<>>
    /\ file = <<>>
    /\ calls = <<>>
    /\ shown = <<>>
    /\ options = DefaultOptions

NextDesign == DesignGrnasDirect

SpecDesign == InitDesign /\ [][NextDesign]_vars

(***************************************************************************)
(* The four operations in the order the callers in app.py use them, on     *)
(* one sequence.                                                           *)
(***************************************************************************)
\* Longest tail of bases after the repeated head of a generated sequence.
MaxTail == 3

\* The units repeated to form the heads.
HeadUnits ==
    {<<"A">>, <<"T">>, <<"G">>, <<"C">>, <<"G", "A">>, <<"T", "C">>, <<"A", "T", "C", "G">>}

\* The 27 bases of the end-to-end scenario: ATCG five times, then AGGATCG.
ScenarioSeq ==
    Cycle(<<"A", "T", "C", "G">>, GuideLen) \o <<"A", "G", "G", "A", "T", "C", "G">>

\* A head long enough for one guide and the 3 bases after it, then any tail,
\* and the scenario's sequence.
PipelineSeqs ==
    {Cycle(u, GuideLen + PamLen) \o tail :
        u \in HeadUnits, tail \in Strings(Bases, 0, MaxTail)}
    \cup {ScenarioSeq}

\* The GC filters of the pipeline, in percent: everything, and the
\* defaults of the sliders in app.py.
PipelineRanges == {<<0, 100>>, <<40, 60>>}

\* grnas = design_grnas(sequence, pam_sites, gc_min, gc_max)
DesignGrnas ==
    /\ pc = "found"
    /\ \E r \in PipelineRanges : Design(pam_sites, Percent(r[1]), Percent(r[2]))

\* grnas = predict_grna_efficiency(grnas)
PredictGrnaEfficiency ==
    /\ pc = "designed"
    /\ grnas' = predict_grna_efficiency(grnas)
    /\ pc' = "scored"
    /\ outcome' = "ok"
    /\ UNCHANGED <<sequence, pam_type, sites_in, gc_min, gc_max, pam_sites, ui, file, calls, shown, options>>

\* grnas = check_off_targets(grnas, sequence)
CheckOffTargets ==
    /\ pc = "scored"
    /\ grnas' = check_off_targets(grnas, sequence)
    /\ pc' = "checked"
    /\ outcome' = "ok"
    /\ UNCHANGED <<sequence, pam_type, sites_in, gc_min, gc_max, pam_sites, ui, file, calls, shown, options>>

Init ==
    /\ pc = "start"
    /\ sequence \in PipelineSeqs
    /\ pam_type \in Profiles
    /\ sites_in = <<>>
    /\ gc_min = Zero
    /\ gc_max = One
    /\ pam_sites = <<>>
    /\ grnas = <<>>
    /\ outcome = "ok"
    /\ ui = <<>>
    /\ file = <<>>
    /\ calls = <<>>
    /\ shown = <<>>
    /\ options = DefaultOptions

Next ==
    \/ FindPamSites
    \/ DesignGrnas
    \/ PredictGrnaEfficiency
    \/ CheckOffTargets

Spec == Init /\ [][Next]_vars

(***************************************************************************)
(* predict_grna_efficiency on its own: the caller's list holds one         *)
(* candidate, with any guide.                                              *)
(***************************************************************************)
\* Longest guide of which every string over the bases is scored.
MaxGuide == 6

\* Units the longer guides repeat.
ScoreUnits ==
    {<<"A">>, <<"T">>, <<"G">>, <<"C">>, <<"A", "T">>, <<"G", "A">>, <<"G", "C", "A">>,
     <<"A", "T", "C", "G">>, <<"G", "G", "A", "C", "T">>,
     <<"A", "A", "A", "A", "A", "T", "T", "T", "T", "T">>}

\* s with the base at 1-based position p replaced by b.
Subst(s, p, b) == [i \in DOMAIN s |-> IF i = p THEN b ELSE s[i]]

\* Every guide up to MaxGuide bases, repeats of a unit up to 20 bases, and
\* the 20-base repeats with one base replaced.
ScoreGuides ==
    Strings(Bases, 0, MaxGuide)
    \cup {Cycle(u, n) : u \in ScoreUnits, n \in 0..GuideLen}
    \cup {Subst(Cycle(u, GuideLen), p, b) :
            u \in ScoreUnits, p \in 1..GuideLen, b \in Bases}

\* A candidate as design_grnas builds it, for guide g found at position p.
guide_dict(g, p) ==
    [sequence |-> g, pam |-> <<>>, position |-> p, gc_content |-> gc_fraction(g)]

\* grnas = predict_grna_efficiency(grnas)
PredictGrnaEfficiencyDirect ==
    /\ pc = "start"
    /\ grnas' = predict_grna_efficiency(grnas)
    /\ pc' = "scored"
    /\ outcome' = "ok"
    /\ UNCHANGED <<sequence, pam_type, sites_in, gc_min, gc_max, pam_sites, ui, file, calls, shown, options>>

InitScore ==
    /\ pc = "start"
    /\ sequence \in ScoreGuides
    /\ pam_type = SpCas9
    /\ sites_in = <<>>
    /\ gc_min = Zero
    /\ gc_max = One
    /\ pam_sites = <<>>
    /\ grnas = <<guide_dict(sequence, 0)>>
    /\ outcome = "ok"
    /\ ui = <<>>
    /\ file = <<>>
    /\ calls = <<>>
    /\ shown = <<>>
    /\ options = DefaultOptions

NextScore == PredictGrnaEfficiencyDirect

SpecScore == InitScore /\ [][NextScore]_vars

(***************************************************************************)
(* check_off_targets on its own: one candidate with any guide over two     *)
(* bases, against any short target over the same two bases.                *)
(***************************************************************************)
\* Longest target sequence scanned.
MaxTarget == 7

OffBases == {"A", "T"}

\* Lengths of the guides scanned for: 5 bases leave room for windows of
\* more than 4 mismatches.
OffGuideLens == 1..(MaxMismatches + 1)

\* grnas = check_off_targets(grnas, sequence)
CheckOffTargetsDirect ==
    /\ pc = "start"
    /\ grnas' = check_off_targets(grnas, sequence)
    /\ pc' = "checked"
    /\ outcome' = "ok"
    /\ UNCHANGED <<sequence, pam_type, sites_in, gc_min, gc_max, pam_sites, ui, file, calls, shown, options>>

\* The candidate's position is any offset a guide of its length can have.
InitOff ==
    /\ pc = "start"
    /\ sequence \in Strings(OffBases, 0, MaxTarget)
    /\ pam_type = SpCas9
    /\ sites_in = <<>>
    /\ gc_min = Zero
    /\ gc_max = One
    /\ pam_sites = <<>>
    /\ \E n \in OffGuideLens : \E g \in [1..n -> OffBases] :
         \E p \in 0..Max(Len(sequence) - n, 0) :
            grnas = <<guide_dict(g, p)>>
    /\ outcome = "ok"
    /\ ui = <<>>
    /\ file = <<>>
    /\ calls = <<>>
    /\ shown = <<>>
    /\ options = DefaultOptions

NextOff == CheckOffTargetsDirect

SpecOff == InitOff /\ [][NextOff]_vars

(***************************************************************************)
(* app.py: the pages that call the core.  A handler is one action; calls   *)
(* is the log of the core operations it invoked.                           *)
(***************************************************************************)
\* set(clean_sequence)
set_of(s) == {s[i] : i \in DOMAIN s}

\* set(clean_sequence).issubset({'A', 'T', 'G', 'C'})
is_dna(s) == set_of(s) \subseteq Bases

\* One entry of the log: the operation, the sequence handed to it (the
\* guides' source for predict_grna_efficiency, which takes none) and how
\* many items it returned.
call(op, seq, n) == [op |-> op, sequence |-> seq, count |-> n]

\* What the two calls leave behind when no site was found.
found_only(seq, found) ==
    [sites |-> <<>>, info |-> found.info, designed |-> FALSE, grnas |-> <<>>,
     calls |-> <<call("find_pam_sites", seq, 0)>>]

\* What the two calls leave behind when design_grnas ran.
found_and_designed(seq, found, designed) ==
    [sites |-> found.sites, info |-> found.info, designed |-> TRUE, grnas |-> designed,
     calls |-> <<call("find_pam_sites", seq, Len(found.sites)),
                 call("design_grnas", seq, Len(designed))>>]

\* grnas = design_grnas(...), whether or not pam_sites is empty
design_after_unguarded(seq, found, gmin, gmax) ==
    found_and_designed(seq, found, design_grnas(seq, found.sites, gmin, gmax))

\* if pam_sites: grnas = design_grnas(...)
design_after(seq, found, gmin, gmax) ==
    IF found.sites = <<>> THEN found_only(seq, found)
    ELSE found_and_designed(seq, found, design_grnas(seq, found.sites, gmin, gmax))

\* pam_sites = find_pam_sites(...); if pam_sites: grnas = design_grnas(...)
find_and_design(seq, ptype, gmin, gmax) ==
    design_after(seq, find_pam_sites(seq, ptype), gmin, gmax)

\* What the two scoring calls leave behind.
scored_and_checked(scored, checked, seq) ==
    [grnas |-> checked,
     calls |-> <<call("predict_grna_efficiency", seq, Len(scored)),
                 call("check_off_targets", seq, Len(checked))>>]

\* grnas = check_off_targets(grnas, seq), on the scored candidates
check_after(scored, seq) == scored_and_checked(scored, check_off_targets(scored, seq), seq)

\* grnas = predict_grna_efficiency(grnas); grnas = check_off_targets(grnas, seq)
score_and_check(gs, seq) == check_after(predict_grna_efficiency(gs), seq)

\* [g for g in grnas if g['efficiency_score'] >= efficiency_threshold
\*                   and g['off_target_score'] <= max_off_targets]
filtered_grnas(gs, opts) ==
    SelectSeq(gs, LAMBDA g : /\ Leq(opts.efficiency_threshold, g.efficiency_score)
                             /\ Leq(g.off_target_score, opts.max_off_targets))

\* The branch of process_single_sequence with candidates: the message and
\* display_grna_results on the filtered candidates, or on all of them when
\* show_all is ticked or the filter leaves none.
single_display(fd, sc, opts) ==
    LET kept == filtered_grnas(sc.grnas, opts)
    IN  [sites |-> fd.sites, designed |-> TRUE, grnas |-> sc.grnas,
         calls |-> fd.calls \o sc.calls,
         shown |-> IF opts.show_all \/ kept = <<>> THEN sc.grnas ELSE kept,
         ui |-> <<"success: valid sequence",
                  IF opts.show_all THEN "info: showing all"
                  ELSE IF kept = <<>> THEN "warning: no guides meet the criteria"
                  ELSE "success: guides meeting criteria">>]

\* if pam_sites: ... if grnas: ... else: warning ... else: warning
single_after_design(fd, cs, opts) ==
    IF fd.sites = <<>>
    THEN [sites |-> fd.sites, designed |-> FALSE, grnas |-> <<>>, calls |-> fd.calls,
          shown |-> <<>>,
          ui |-> <<"success: valid sequence">> \o fd.info \o <<"warning: no PAM sites">>]
    ELSE IF fd.grnas = <<>>
    THEN [sites |-> fd.sites, designed |-> TRUE, grnas |-> <<>>, calls |-> fd.calls,
          shown |-> <<>>,
          ui |-> <<"success: valid sequence", "warning: no suitable guide RNAs">>]
    ELSE single_display(fd, score_and_check(fd.grnas, cs), opts)

\* What process_single_sequence does once the sequence is valid.
single_valid(cs, ptype, gmin, gmax, opts) ==
    single_after_design(find_and_design(cs, ptype, gmin, gmax), cs, opts)

\* The two tests of the cleaned sequence, and the pipeline when it passes.
single_checked(clean_sequence, ptype, gmin, gmax, opts) ==
    IF clean_sequence = <<>>
    THEN [sites |-> <<>>, designed |-> FALSE, grnas |-> <<>>, calls |-> <<>>,
          shown |-> <<>>, ui |-> <<"error: Please enter a DNA sequence">>]
    ELSE IF ~is_dna(clean_sequence)
    THEN [sites |-> <<>>, designed |-> FALSE, grnas |-> <<>>, calls |-> <<>>,
          shown |-> <<>>, ui |-> <<"error: Invalid characters found">>]
    ELSE single_valid(clean_sequence, ptype, gmin, gmax, opts)

\* process_single_sequence(sequence, pam_type, gc_min, gc_max, ...)
process_single_sequence(text, ptype, gmin, gmax, opts) ==
    single_checked(clean(text), ptype, gmin, gmax, opts)

\* The most rows process_batch_sequences accepts.
MaxBatch == 100

\* len(sequences) >= 100
over_cap_inclusive(n) == n >= MaxBatch

\* len(sequences) > 100
over_cap(n) == n > MaxBatch

\* for grna in grnas: grna['sequence_name'] = name
named(gs, name) == [k \in DOMAIN gs |-> [sequence_name |-> name] @@ gs[k]]

\* What a row adds to the log and to all_results.
row_result(calls_made, results) ==
    [raised |-> FALSE, calls |-> calls_made, results |-> results]

\* The row's candidates once scored and checked.
row_scored(fd, sc) == row_result(fd.calls \o sc.calls, sc.grnas)

\* if pam_sites: ... if grnas: ... all_results.extend(grnas)
row_designed(fd, clean_sequence, name) ==
    IF fd.grnas = <<>> THEN row_result(fd.calls, <<>>)
    ELSE row_scored(fd, score_and_check(named(fd.grnas, name), clean_sequence))

\* if set(clean_sequence).issubset({'A', 'T', 'G', 'C'}): ...
row_cleaned(clean_sequence, name, ptype, gmin, gmax) ==
    IF ~is_dna(clean_sequence) THEN row_result(<<>>, <<>>)
    ELSE row_designed(find_and_design(clean_sequence, ptype, gmin, gmax),
                      clean_sequence, name)

\* One pass of the loop of process_batch_sequences, for the row at index
\* label idx.  A missing value is a float to pandas, and .upper() on it
\* raises AttributeError.
batch_row(row, idx, ptype, gmin, gmax, opts) ==
    IF row.missing THEN [raised |-> TRUE, calls |-> <<>>, results |-> <<>>]
    ELSE row_cleaned(clean(row.sequence),
                     IF opts.has_headers THEN row.name ELSE <<"Sequence_", idx + 1>>,
                     ptype, gmin, gmax)

\* The passes over two stretches of rows, one after the other: the second
\* is not made when the first raised.
then_rows(left, right) ==
    IF left.raised THEN left
    ELSE [raised |-> right.raised, calls |-> left.calls \o right.calls,
          results |-> left.results \o right.results]

\* The loop over rows lo..hi in order, halved so that a long file does not
\* nest deeply: it stops at the first row that raises.
RECURSIVE batch_rows(_, _, _, _, _, _, _)
batch_rows(rows, lo, hi, ptype, gmin, gmax, opts) ==
    IF lo > hi THEN row_result(<<>>, <<>>)
    ELSE IF lo = hi THEN batch_row(rows[lo], lo - 1, ptype, gmin, gmax, opts)
    ELSE then_rows(batch_rows(rows, lo, (lo + hi) \div 2, ptype, gmin, gmax, opts),
                   batch_rows(rows, (lo + hi) \div 2 + 1, hi, ptype, gmin, gmax, opts))

\* results_df[results_df['efficiency_score'] >= efficiency_threshold]
filtered_df(results, opts) ==
    SelectSeq(results, LAMBDA g : Leq(opts.efficiency_threshold, g.efficiency_score))

\* What process_batch_sequences does after its loop: the except clause for
\* a loop that raised, else the table of all_results when there are any.
batch_report(loop, opts) ==
    IF loop.raised
    THEN [grnas |-> <<>>, calls |-> loop.calls, shown |-> <<>>,
          ui |-> <<"error: Error processing file">>]
    ELSE IF loop.results = <<>>
    THEN [grnas |-> <<>>, calls |-> loop.calls, shown |-> <<>>, ui |-> <<>>]
    ELSE [grnas |-> loop.results, calls |-> loop.calls,
          shown |-> filtered_df(loop.results, opts),
          ui |-> <<"success: Processed sequences", "info: Found guide RNAs">>]

\* process_batch_sequences(uploaded_file, has_headers, pam_type, ...)
process_batch_sequences(rows, ptype, gmin, gmax, opts) ==
    IF over_cap(Len(rows))
    THEN [grnas |-> <<>>, calls |-> <<>>, shown |-> <<>>,
          ui |-> <<"error: Maximum 100 sequences allowed per batch">>]
    ELSE batch_report(batch_rows(rows, 1, Len(rows), ptype, gmin, gmax, opts), opts)

\* scores = scorer.calculate_all_scores(clean_seq), and the message the
\* final score earns.
analysis_report(clean_seq, scores) ==
    [raised |-> "ok",
     calls |-> <<call("calculate_all_scores", clean_seq, Cardinality(DOMAIN scores))>>,
     ui |-> <<IF Leq(<<7, 10>>, scores.final_score) THEN "success: favorable"
              ELSE IF Leq(<<1, 2>>, scores.final_score) THEN "warning: moderate"
              ELSE "error: challenging">>]

\* The 'Sequence Statistics' column of show_sequence_analysis: count/len
\* divides by zero for an empty cleaned sequence, before any scoring.
analysis_checked(clean_seq) ==
    IF ~is_dna(clean_seq) THEN [raised |-> "ok", calls |-> <<>>, ui |-> <<>>]
    ELSE IF clean_seq = <<>>
    THEN [raised |-> "ZeroDivisionError", calls |-> <<>>, ui |-> <<>>]
    ELSE analysis_report(clean_seq, calculate_all_scores(clean_seq))

\* show_sequence_analysis, from 'if sequence and calculate:' on
show_sequence_analysis(text) == analysis_checked(clean(text))

\* The calls of plot_guide_rna_map: design_grnas follows find_pam_sites
\* whatever it found.
map_calls(seq, found) ==
    <<call("find_pam_sites", seq, Len(found.sites)),
      call("design_grnas", seq, Len(design_grnas(seq, found.sites, <<3, 10>>, <<7, 10>>)))>>

\* plot_guide_rna_map(sequence)
plot_guide_rna_map(seq) == map_calls(seq, find_pam_sites(seq, SpCas9))

\* The calls of plot_off_target_analysis: check_off_targets on the designed
\* candidates.
off_target_calls(seq, fd) ==
    IF fd.grnas = <<>> THEN fd.calls
    ELSE fd.calls \o <<call("check_off_targets", seq,
                            Len(check_off_targets(fd.grnas, seq)))>>

\* plot_off_target_analysis(sequence)
plot_off_target_analysis(seq) ==
    off_target_calls(seq, find_and_design(seq, SpCas9, <<3, 10>>, <<7, 10>>))

\* The calls of plot_efficiency_prediction: predict_grna_efficiency on the
\* designed candidates.
efficiency_calls(seq, fd) ==
    IF fd.grnas = <<>> THEN fd.calls
    ELSE fd.calls \o <<call("predict_grna_efficiency", seq,
                            Len(predict_grna_efficiency(fd.grnas)))>>

\* plot_efficiency_prediction(sequence)
plot_efficiency_prediction(seq) ==
    efficiency_calls(seq, find_and_design(seq, SpCas9, <<3, 10>>, <<7, 10>>))

\* The tabs of show_visualization, in order; plot_secondary_structure calls
\* nothing of the core.
show_plots(seq) ==
    plot_guide_rna_map(seq) \o plot_off_target_analysis(seq)
        \o plot_efficiency_prediction(seq)

\* if sequence and calculate: sequence = sequence.upper().replace(...)...
show_visualization(text) == show_plots(clean(text))

(***************************************************************************)
(* The pages as actions: a button press runs one handler to its end.  pc   *)
(* names the handler that ran: "single", "batch", "analysis",              *)
(* "visualization", or "failed" when it raised.                            *)
(***************************************************************************)
\* Longest text of which every string over TextChars is typed in.
MaxText == 2

\* The keys pressed for the short texts.
TextChars == {"A", "G", "a", " ", "\n", "N"}

\* Most rows of a file of which every mix of rows is uploaded.
MaxRows == 3

\* s as typed without the shift key.
Lowered(s) ==
    [i \in DOMAIN s |-> CASE s[i] = "A" -> "a" [] s[i] = "T" -> "t"
                           [] s[i] = "G" -> "g" [] s[i] = "C" -> "c" [] OTHER -> s[i]]

\* The texts typed into a page: every short one, the scenario as it is and in
\* lower case behind a blank, with an N in it, a run of G, a run of T before
\* an A, and a sequence with no PAM.
AppTexts ==
    Strings(TextChars, 1, MaxText)
        \cup {ScenarioSeq,
              <<" ">> \o Lowered(ScenarioSeq) \o <<"\n">>,
              Subst(ScenarioSeq, 3, "N"),
              Cycle(<<"G">>, GuideLen + PamLen),
              Cycle(<<"T">>, GuideLen + PamLen) \o <<"A">>,
              <<"A", "N", "G", "G">>,
              Cycle(<<"A", "T">>, GuideLen + PamLen)}

\* The kinds of row pandas hands over: a sequence with a guide, one without
\* a PAM, one with a letter that is no base, one of blanks only, and a
\* missing value.
AppRows ==
    {[name |-> <<"guide">>, missing |-> FALSE, sequence |-> ScenarioSeq],
     [name |-> <<"plain">>, missing |-> FALSE, sequence |-> <<"a", "t", " ", "A", "T">>],
     [name |-> <<"other">>, missing |-> FALSE, sequence |-> <<"A", "N", "G", "G">>],
     [name |-> <<"blank">>, missing |-> FALSE, sequence |-> <<" ">>],
     [name |-> <<"nan">>, missing |-> TRUE, sequence |-> <<>>]}

\* The uploaded files: every mix of up to MaxRows rows, and the files of one
\* row repeated up to, and one past, the cap.
AppFiles ==
    Strings(AppRows, 1, MaxRows)
        \cup {Cycle(<<r>>, n) : r \in {row \in AppRows : row.name \in {<<"guide">>, <<"plain">>}},
                                n \in {MaxBatch, MaxBatch + 1}}
        \cup {<<q>> \o Cycle(<<r>>, MaxBatch - 1) :
                  r \in {row \in AppRows : row.name = <<"plain">>}, q \in AppRows}

\* The slider positions for the GC range, in percent.
AppRanges == {<<40, 60>>, <<30, 80>>}

\* The positions of the other widgets.
AppOptions ==
    {DefaultOptions,
     [DefaultOptions EXCEPT !.show_all = TRUE, !.has_headers = FALSE],
     [DefaultOptions EXCEPT !.efficiency_threshold = <<1, 1>>],
     [DefaultOptions EXCEPT !.efficiency_threshold = <<0, 1>>,
                            !.max_off_targets = <<0, 1>>]}

\* if sequence and calculate: process_single_sequence(...)
ProcessSingleSequence ==
    /\ pc = "start"
    /\ sequence # <<>>
    /\ \E r \in {process_single_sequence(sequence, pam_type, gc_min, gc_max, options)} :
           /\ pam_sites' = r.sites
           /\ sites_in' = IF r.designed THEN r.sites ELSE sites_in
           /\ grnas' = r.grnas
           /\ calls' = calls \o r.calls
           /\ shown' = r.shown
           /\ ui' = ui \o r.ui
    /\ pc' = "single"
    /\ UNCHANGED <<sequence, pam_type, gc_min, gc_max, outcome, file, options>>

\* if st.session_state.uploaded_file and calculate_batch:
\*     process_batch_sequences(...)
ProcessBatchSequences ==
    /\ pc = "start"
    /\ file # <<>>
    /\ \E r \in {process_batch_sequences(file, pam_type, gc_min, gc_max, options)} :
           /\ grnas' = r.grnas
           /\ calls' = calls \o r.calls
           /\ shown' = r.shown
           /\ ui' = ui \o r.ui
    /\ pc' = "batch"
    /\ UNCHANGED <<sequence, pam_type, sites_in, gc_min, gc_max, pam_sites, outcome, file,
                   options>>

\* show_sequence_analysis, once 'Analyze Sequence' is pressed
ShowSequenceAnalysis ==
    /\ pc = "start"
    /\ sequence # <<>>
    /\ \E r \in {show_sequence_analysis(sequence)} :
           /\ calls' = calls \o r.calls
           /\ ui' = ui \o r.ui
           /\ outcome' = r.raised
           /\ pc' = IF r.raised = "ok" THEN "analysis" ELSE "failed"
    /\ UNCHANGED <<sequence, pam_type, sites_in, gc_min, gc_max, pam_sites, grnas, file,
                   shown, options>>

\* show_visualization, once 'Generate Visualizations' is pressed
ShowVisualization ==
    /\ pc = "start"
    /\ sequence # <<>>
    /\ calls' = calls \o show_visualization(sequence)
    /\ pc' = "visualization"
    /\ UNCHANGED <<sequence, pam_type, sites_in, gc_min, gc_max, pam_sites, grnas, outcome,
                   ui, file, shown, options>>

\* A page as it stands before its button is pressed: a text in the text
\* area or a file in the uploader, and the widgets at some position.  The
\* handlers are given gc_min/100 and gc_max/100.
InitApp ==
    /\ pc = "start"
    /\ \/ sequence \in AppTexts /\ file = <<>>
       \/ sequence = <<>> /\ file \in AppFiles
    /\ pam_type \in Profiles
    /\ \E r \in AppRanges : gc_min = Percent(r[1]) /\ gc_max = Percent(r[2])
    /\ options \in AppOptions
    /\ sites_in = <<>>
    /\ pam_sites = <<>>
    /\ grnas = <<>>
    /\ outcome = "ok"
    /\ ui = <<>>
    /\ calls = <<>>
    /\ shown = <<>>

NextApp ==
    \/ ProcessSingleSequence
    \/ ProcessBatchSequences
    \/ ShowSequenceAnalysis
    \/ ShowVisualization

SpecApp == InitApp /\ [][NextApp]_vars

(***************************************************************************)
(* The motif a profile identifier names, in IUPAC codes: N any base,       *)
(* R a purine (A or G), V not T.                                           *)
(***************************************************************************)
Iupac ==
    ("N" :> Bases) @@ ("R" :> {"A", "G"}) @@ ("V" :> {"A", "C", "G"})
    @@ ("G" :> {"G"}) @@ ("T" :> {"T"})

Motif ==
    (SpCas9 :> <<"N", "G", "G">>)
    @@ (SaCas9 :> <<"N", "N", "G", "R", "R", "T">>)
    @@ (Cas12a :> <<"T", "T", "T", "V">>)

\* The motif of ptype matches s at 0-based index i, and fits inside s.
MotifMatches(ptype, s, i) ==
    /\ 0 <= i
    /\ i + Len(Motif[ptype]) <= Len(s)
    /\ \A k \in 1..Len(Motif[ptype]) : s[i + k] \in Iupac[Motif[ptype][k]]

Range(f) == {f[k] : k \in DOMAIN f}

StrictlyAscending(f) == \A k \in 1..(Len(f) - 1) : f[k] < f[k + 1]

\* C1: for every sequence over the bases and each of the three profiles, the
\* returned positions are strictly ascending and the profile's motif matches
\* the sequence at every returned position.
C1_SitesAscendingAndMatch ==
    (pc = "found" /\ pam_type \in Profiles) =>
        /\ StrictlyAscending(pam_sites)
        /\ \A k \in DOMAIN pam_sites : MotifMatches(pam_type, sequence, pam_sites[k])

\* C2: every index at which the profile's motif matches is in the result,
\* also when the match overlaps an earlier reported match.
C2_SitesComplete ==
    (pc = "found" /\ pam_type \in Profiles) =>
        \A i \in 0..Len(sequence) :
            MotifMatches(pam_type, sequence, i) => i \in Range(pam_sites)

\* C2 witness: two overlapping matches, at i and i + 1, are both reported.
C2_Witness ==
    /\ pc = "found"
    /\ pam_type \in {SpCas9, Cas12a}
    /\ \E i \in Range(pam_sites) :
        /\ i + 1 \in Range(pam_sites)
        /\ MotifMatches(pam_type, sequence, i)
        /\ MotifMatches(pam_type, sequence, i + 1)

\* C3: under SaCas9 an index is reported exactly when the 6-mer there has G
\* at its 3rd position, A or G at its 4th and 5th, and T at its 6th.
C3_SaCas9Exact ==
    (pc = "found" /\ pam_type = SaCas9) =>
        \A i \in 0..Len(sequence) :
            i \in Range(pam_sites) <=> MotifMatches(SaCas9, sequence, i)

\* C5: with a profile identifier that is not one of the three known ones,
\* find_pam_sites never returns a list of sites; the call ends in an error.
C5_UnknownProfileFails ==
    pam_type \notin Profiles =>
        /\ pc \in {"start", "failed"}
        /\ pc = "failed" => outcome = "KeyError"

\* C5 witness: a call with an unknown identifier has ended in the error.
C5_Witness ==
    /\ pam_type \notin Profiles
    /\ pc = "failed"
    /\ outcome = "KeyError"

\* The guide span of site lies inside seq: it starts at site - 20 >= 0 and
\* ends at site <= len(seq).
SpanInBounds(seq, site) == 0 <= site - GuideLen /\ site <= Len(seq)

\* How many entries of list f satisfy Test.
CountIf(f, Test(_)) == Cardinality({k \in DOMAIN f : Test(f[k])})

\* C6: every returned candidate has gcMin <= gc <= gcMax, both ends
\* inclusive, where gc is the count of G and C over the guide's length; with
\* gcMin = 0.0 and gcMax = 1.0 every site whose guide span is in bounds has
\* its candidate.
C6_GcFilter ==
    pc = "designed" =>
        /\ \A k \in DOMAIN grnas :
            LET g == grnas[k].sequence
                gc == Count(g, {"G", "C"})
            IN  /\ Len(g) > 0 => Same(grnas[k].gc_content, <<gc, Len(g)>>)
                /\ gc_min[1] * Len(g) <= gc * gc_min[2]
                /\ gc * gc_max[2] <= gc_max[1] * Len(g)
                /\ Leq(gc_min, grnas[k].gc_content)
                /\ Leq(grnas[k].gc_content, gc_max)
        /\ (Same(gc_min, Zero) /\ Same(gc_max, One)) =>
            \A site \in Range(sites_in) :
                SpanInBounds(sequence, site) =>
                    CountIf(grnas, LAMBDA c : c.position = site - GuideLen)
                        = CountIf(sites_in, LAMBDA x : x = site)

\* C6 witness: a guide whose GC fraction equals a bound of the filter is
\* kept, and a site in bounds is dropped by a narrower filter.
C6_Witness ==
    /\ pc = "designed"
    /\ \E k \in DOMAIN grnas :
        Same(grnas[k].gc_content, gc_min) \/ Same(grnas[k].gc_content, gc_max)
    /\ \E site \in Range(sites_in) :
        /\ SpanInBounds(sequence, site)
        /\ \A k \in DOMAIN grnas : grnas[k].position # site - GuideLen

\* C7: every candidate has a guide of exactly 20 bases, equal to
\* sequence[position .. position + 20) with position = site - 20 inside the
\* sequence; a site whose span would leave the sequence yields no candidate.
C7_GuideSpanInBounds ==
    pc = "designed" =>
        /\ \A k \in DOMAIN grnas :
            /\ Len(grnas[k].sequence) = GuideLen
            /\ 0 <= grnas[k].position
            /\ grnas[k].position + GuideLen <= Len(sequence)
            /\ grnas[k].sequence
                 = SubSeq(sequence, grnas[k].position + 1, grnas[k].position + GuideLen)
            /\ grnas[k].position + GuideLen \in Range(sites_in)
        /\ \A site \in Range(sites_in) :
            ~SpanInBounds(sequence, site) =>
                \A k \in DOMAIN grnas : grnas[k].position # site - GuideLen

\* C8: the candidates come in the order of their sites in the input list,
\* at most one per listed site, a site listed twice giving two candidates:
\* the sites of the candidates are the input list cut down to the sites that
\* have a candidate.
C8_SiteOrderKept ==
    pc = "designed" =>
        [k \in DOMAIN grnas |-> grnas[k].position + GuideLen]
            = SelectSeq(sites_in,
                        LAMBDA site : \E k \in DOMAIN grnas :
                                         grnas[k].position = site - GuideLen)

\* C8 witness: a list with a site twice, or with two sites in descending
\* order, has given two candidates.
C8_Witness ==
    /\ pc = "designed"
    /\ Len(grnas) >= 2
    /\ Len(sites_in) = Len(grnas)
    /\ sites_in[1] >= sites_in[2]

\* C4: for every non-empty sequence over the bases and each known profile no
\* operation ends in an error: find_pam_sites returns a list, possibly an
\* empty one, and design_grnas, predict_grna_efficiency and
\* check_off_targets given an empty list return an empty list.
C4_NoErrorOnWellFormed ==
    (Len(sequence) > 0 /\ Range(sequence) \subseteq Bases /\ pam_type \in Profiles) =>
        /\ outcome = "ok"
        /\ pc # "failed"
        /\ pam_sites \in Seq(0..Len(sequence))
        /\ (pc \in {"designed", "scored", "checked"} /\ sites_in = <<>>)
              => grnas = <<>>

\* C4 witness: the motif occurs nowhere, and all four operations have
\* returned, the last three with an empty list.
C4_Witness ==
    /\ pc = "checked"
    /\ outcome = "ok"
    /\ \A i \in 0..Len(sequence) : ~MotifMatches(pam_type, sequence, i)
    /\ pam_sites = <<>>
    /\ sites_in = <<>>
    /\ grnas = <<>>

\* C9: the 'pam' attribute of a candidate is the whole subsequence the
\* profile's motif matched at its site: 3 bases for SpCas9, 6 for SaCas9,
\* 4 for Cas12a.
C9_PamIsWholeMatch ==
    (pc = "designed" /\ sites_in = pam_sites) =>
        \A k \in DOMAIN grnas :
            LET site == grnas[k].position + GuideLen
            IN  /\ Len(grnas[k].pam) = Len(Motif[pam_type])
                /\ grnas[k].pam = SubSeq(sequence, site + 1, site + Len(Motif[pam_type]))

\* C10: for a site found under Cas12a the guide lies downstream of the PAM,
\* starting at or after the end of the match; for SpCas9 and SaCas9 it is
\* the 20 bases immediately upstream of the PAM start.
C10_GuideSideByProfile ==
    (pc = "designed" /\ sites_in = pam_sites) =>
        \A k \in DOMAIN grnas :
            \E site \in Range(pam_sites) :
                /\ grnas[k].sequence
                     = SubSeq(sequence, grnas[k].position + 1, grnas[k].position + GuideLen)
                /\ IF pam_type = Cas12a
                   THEN grnas[k].position >= site + Len(Motif[Cas12a])
                   ELSE grnas[k].position + GuideLen = site

(***************************************************************************)
(* The component scores, against their definitions in the specification.   *)
(***************************************************************************)
\* How many bases of g are G or C.
GcCount(g) == Count(g, {"G", "C"})

\* C11: for a guide of length L >= 1 with k bases in {G, C}, the stored
\* gc_score is 1 when 0.45 <= k/L <= 0.65 (both ends included), (k/L)/0.45
\* when k/L < 0.45 and (1 - k/L)/0.35 when k/L > 0.65; it is never below 0
\* and it is 0 exactly when k = 0 or k = L.
C11_GcScorePiecewise ==
    pc = "scored" =>
        \A i \in DOMAIN grnas :
            LET g == grnas[i].sequence
                L == Len(g)
                k == GcCount(g)
                score == grnas[i].gc_score
            IN  L >= 1 =>
                    /\ (45 * L <= 100 * k /\ 100 * k <= 65 * L) => Same(score, <<1, 1>>)
                    /\ 100 * k < 45 * L => Same(score, <<100 * k, 45 * L>>)
                    /\ 100 * k > 65 * L => Same(score, <<100 * (L - k), 35 * L>>)
                    /\ Leq(<<0, 1>>, score)
                    /\ Same(score, <<0, 1>>) <=> (k = 0 \/ k = L)

\* A scored 20-base guide with exactly 65% G or C, at the top of the plateau.
C11_Witness ==
    /\ pc = "scored"
    /\ \E i \in DOMAIN grnas :
        /\ Len(grnas[i].sequence) = GuideLen
        /\ 100 * GcCount(grnas[i].sequence) = 65 * GuideLen
        /\ Same(grnas[i].gc_score, <<1, 1>>)

\* The greatest length of a substring g[a:b] of 5 bases or more, over every
\* 0 <= a < b <= len(g), that occurs in the reverse complement of g; 0 if
\* there is none.
RefMaxLen(g) ==
    SetMax({0} \cup
           {p[2] - p[1] : p \in
               {q \in (0..Len(g)) \X (0..Len(g)) :
                   /\ q[2] - q[1] >= 5
                   /\ Contains(rev_comp(g), SubSeq(g, q[1] + 1, q[2]))}})

RefSelfComplementarity(g) ==
    LET maxLen == RefMaxLen(g)
    IN  IF maxLen < 5 THEN <<1, 1>>
        ELSE IF maxLen >= 12 THEN <<0, 1>>
        ELSE <<7 - (maxLen - 5), 7>>

\* C12: the stored self_complementarity is the value the longest substring
\* of 5 bases or more that occurs in the reverse complement gives, taken
\* over every start and end, the guide's last base and the whole guide
\* included: 1 below 5, 0 from 12 on, 1 - (maxLen - 5)/7 between.
C12_SelfComplementarityAllSubstrings ==
    pc = "scored" =>
        \A i \in DOMAIN grnas :
            Same(grnas[i].self_complementarity,
                 RefSelfComplementarity(grnas[i].sequence))

\* The longest run of consecutive b in g, 0 when g has no b.
TrueRun(g, b) ==
    SetMax({0} \cup
           {n \in 1..Len(g) :
               \E a \in 1..(Len(g) - n + 1) : \A i \in a..(a + n - 1) : g[i] = b})

\* Twice the score of a run: 2 up to full, 0 from full + 2 on, 1 between.
RunHalves(run, full) == IF run <= full THEN 2 ELSE IF run >= full + 2 THEN 0 ELSE 1

\* 0.4 T + 0.2 A + 0.2 G + 0.2 C over the true runs, in twentieths.
RefHomopolymer(g) ==
    <<4 * RunHalves(TrueRun(g, "T"), 2) + 2 * RunHalves(TrueRun(g, "A"), 3)
        + 2 * RunHalves(TrueRun(g, "G"), 3) + 2 * RunHalves(TrueRun(g, "C"), 3),
      20>>

\* C13: the stored homopolymer score is 0.4 T-score + 0.2 A-score
\* + 0.2 G-score + 0.2 C-score, each taken from the true longest run of its
\* base (0 when absent): T 1 up to 2, 0.5 at 3, 0 from 4; A, G, C 1 up to
\* 3, 0.5 at 4, 0 from 5.
C13_HomopolymerFromTrueRuns ==
    pc = "scored" =>
        \A i \in DOMAIN grnas :
            Same(grnas[i].homopolymer, RefHomopolymer(grnas[i].sequence))

\* A scored guide with a run of exactly 3 T, a run of exactly 4 of another
\* base apart from it, and a base that is absent.
C13_Witness ==
    /\ pc = "scored"
    /\ \E i \in DOMAIN grnas :
        LET g == grnas[i].sequence
        IN  /\ TrueRun(g, "T") = 3
            /\ \E b \in Bases : TrueRun(g, b) = 0
            /\ Same(grnas[i].homopolymer, <<8, 10>>)

\* The 1-based positions the specification scores.
ScoredPositions == {1, 2, 3, 4, 16, 17, 18, 19, 20}

\* The mean table weight of g's bases at the scored positions within g.
RefPosition(g) ==
    LET within == {p \in ScoredPositions : p <= Len(g)}
    IN  IF within = {} THEN <<1, 2>>
        ELSE <<SetSum(within, [p \in within |-> preferences[p][g[p]]]),
               10 * Cardinality(within)>>

\* C14: the stored position score is the sum of the table weights of the
\* guide's bases at the scored positions 1-4 and 16-20 that lie within the
\* guide, divided by their number; replacing the base at any of positions
\* 5..15 leaves the score as it is; a guide of length 0 scores 0.5.
C14_PositionScoreAveragesScoredPositions ==
    pc = "scored" =>
        \A i \in DOMAIN grnas :
            LET g == grnas[i].sequence
                score == grnas[i].position
            IN  /\ Same(score, RefPosition(g))
                /\ Len(g) = 0 => Same(score, <<1, 2>>)
                /\ \A p \in 5..15 : \A b \in Bases :
                        p <= Len(g) => Same(position_score(Subst(g, p, b)), score)

\* A scored guide of 16 to 19 bases: some of the late scored positions are
\* within it, some are not, and its score is not the default.
C14_Witness ==
    /\ pc = "scored"
    /\ \E i \in DOMAIN grnas :
        /\ Len(grnas[i].sequence) \in 16..19
        /\ Same(grnas[i].position, RefPosition(grnas[i].sequence))
        /\ ~Same(grnas[i].position, <<1, 2>>)

\* 0.25 gc + 0.25 sc + 0.20 hp + 0.30 pos, in lowest terms
RefFinal(gc, sc, hp, pos) ==
    Add(Add(Mul(<<25, 100>>, gc), Mul(<<25, 100>>, sc)),
        Add(Mul(<<20, 100>>, hp), Mul(<<30, 100>>, pos)))

InUnit(x) == Leq(<<0, 1>>, x) /\ Leq(x, <<1, 1>>)

\* C16: for a guide of 1 to 20 bases, gc_score, self_complementarity,
\* homopolymer, position and the final score each lie in [0, 1].
C16_ScoresInUnitInterval ==
    pc = "scored" =>
        \A i \in DOMAIN grnas :
            Len(grnas[i].sequence) \in 1..GuideLen =>
                /\ InUnit(grnas[i].gc_score)
                /\ InUnit(grnas[i].self_complementarity)
                /\ InUnit(grnas[i].homopolymer)
                /\ InUnit(grnas[i].position)
                /\ InUnit(grnas[i].efficiency_score)
                /\ InUnit(calculate_all_scores(grnas[i].sequence).final_score)

\* A scored 20-base guide with a complementary region of 12 bases or more,
\* where the self-complementarity score is at the bottom of the interval.
C16_Witness ==
    /\ pc = "scored"
    /\ \E i \in DOMAIN grnas :
        /\ Len(grnas[i].sequence) = GuideLen
        /\ max_complementary(grnas[i].sequence) >= 12
        /\ Same(grnas[i].self_complementarity, <<0, 1>>)

(***************************************************************************)
(* The off-target scan, against its definition in the specification.       *)
(***************************************************************************)
\* The Hamming distance of g to the window of target that starts at o.
Hamming(g, target, o) == Cardinality({k \in 1..Len(g) : g[k] # target[o + k]})

\* The offsets 0 .. N - L - 1 of a guide of L bases in a target of N.
EvaluatedOffsets(g, target) == 0..(Len(target) - Len(g) - 1)

\* Sixteen times the sum S over the evaluated windows: 16 / 2^m for a
\* window of m <= 4 mismatches, 0 for any other.
RefSum16(g, target) ==
    LET offs == EvaluatedOffsets(g, target)
    IN  SetSum(offs, [o \in offs |->
                        IF Hamming(g, target, o) <= 4
                        THEN 16 \div (2 ^ Hamming(g, target, o)) ELSE 0])

\* min(100, 20 S) rounded to one decimal place.
RefOffTarget(g, target) ==
    LET s16 == RefSum16(g, target)
    IN  round1(IF 20 * s16 > 100 * 16 THEN <<100, 1>> ELSE Norm(<<20 * s16, 16>>))

\* C17: for a guide of L bases and a sequence of N, the offsets the scan
\* evaluates are exactly 0 .. N - L - 1, each once, and never N - L; when
\* N = L no window is evaluated and the score is 0.
C17_WindowsStopBeforeLast ==
    pc = "checked" =>
        \A i \in DOMAIN grnas :
            LET g == grnas[i].sequence
                L == Len(g)
                N == Len(sequence)
                ws == window_offsets(g, sequence)
            IN  /\ {ws[k] : k \in DOMAIN ws} = 0..(N - L - 1)
                /\ \A a, b \in DOMAIN ws : a # b => ws[a] # ws[b]
                /\ \A k \in DOMAIN ws : ws[k] # N - L
                /\ N = L => /\ ws = <<>>
                            /\ Same(grnas[i].off_target_score, <<0, 1>>)

\* A checked candidate whose guide is the whole sequence: the one window
\* that matches is the last possible one, and the score is 0.
C17_Witness ==
    /\ pc = "checked"
    /\ \E i \in DOMAIN grnas :
        /\ grnas[i].sequence = sequence
        /\ Len(sequence) >= 1
        /\ Same(grnas[i].off_target_score, <<0, 1>>)

\* C18: the stored off_target_score is min(100, 20 S) rounded to one
\* decimal place, S being the sum over the evaluated windows of 1/2^m for
\* a window of m <= 4 mismatches and 0 for one of more; it lies in [0, 100].
C18_OffTargetScoreFormula ==
    pc = "checked" =>
        \A i \in DOMAIN grnas :
            /\ Same(grnas[i].off_target_score,
                    RefOffTarget(grnas[i].sequence, sequence))
            /\ Leq(<<0, 1>>, grnas[i].off_target_score)
            /\ Leq(grnas[i].off_target_score, <<100, 1>>)

\* A checked candidate with an evaluated window of more than 4 mismatches,
\* one of 1 to 4 mismatches, and a score between 0 and 100.
C18_Witness ==
    /\ pc = "checked"
    /\ \E i \in DOMAIN grnas :
        LET g == grnas[i].sequence
        IN  /\ \E o \in EvaluatedOffsets(g, sequence) : Hamming(g, sequence, o) > 4
            /\ \E o \in EvaluatedOffsets(g, sequence) : Hamming(g, sequence, o) \in 1..4
            /\ Less(<<0, 1>>, grnas[i].off_target_score)
            /\ Less(grnas[i].off_target_score, <<100, 1>>)

\* C19: a candidate whose guide is the substring of the sequence at the
\* candidate's own position, any position from 0 to N - L, has its origin
\* window counted with 0 mismatches, so its off_target_score is at least 20.
C19_SelfMatchBaseline ==
    pc = "checked" =>
        \A i \in DOMAIN grnas :
            LET g == grnas[i].sequence
                p == grnas[i].position
            IN  (/\ p \in 0..(Len(sequence) - Len(g))
                 /\ SubSeq(sequence, p + 1, p + Len(g)) = g)
                => Leq(<<20, 1>>, grnas[i].off_target_score)

\* C20: with the threshold of the mismatch test as t, the score for t is at
\* most the score for t + 1, for every t in 0..3; the stored score is the
\* one for t = 4.
C20_ScoreMonotoneInThreshold ==
    pc = "checked" =>
        \A i \in DOMAIN grnas :
            LET g == grnas[i].sequence
            IN  /\ \A t \in 0..(MaxMismatches - 1) :
                    Leq(off_target_score_at(g, sequence, t),
                        off_target_score_at(g, sequence, t + 1))
                /\ Same(grnas[i].off_target_score,
                        off_target_score_at(g, sequence, MaxMismatches))

\* A checked candidate with a window that matches exactly, counted at every
\* threshold, and a threshold t whose step to t + 1 raises the score.
C20_Witness ==
    /\ pc = "checked"
    /\ \E i \in DOMAIN grnas :
        /\ Less(<<0, 1>>, off_target_score_at(grnas[i].sequence, sequence, 0))
        /\ \E t \in 0..(MaxMismatches - 1) :
            Less(off_target_score_at(grnas[i].sequence, sequence, t),
                 off_target_score_at(grnas[i].sequence, sequence, t + 1))

(***************************************************************************)
(* The end-to-end scenario, the frame of the later stages, and the         *)
(* self-match of a designed candidate.                                     *)
(***************************************************************************)
\* The scenario's sequence has gone through find_pam_sites under SpCas9 and
\* design_grnas with a GC range that admits 50%.
ScenarioDesigned ==
    /\ sequence = ScenarioSeq
    /\ pam_type = SpCas9
    /\ pc = "designed"
    /\ sites_in = pam_sites
    /\ Leq(gc_min, <<1, 2>>)
    /\ Leq(<<1, 2>>, gc_max)

\* C24 as stated: for the 27-base scenario under SpCas9, find_pam_sites
\* reports the PAM "AGG" at 0-based position 21, and design_grnas with an
\* admitting GC range yields for it the guide sequence[1:21].
C24_ScenarioAsStated ==
    ScenarioDesigned =>
        /\ 21 \in Range(pam_sites)
        /\ Slice(sequence, 21, 24) = <<"A", "G", "G">>
        /\ \E k \in DOMAIN grnas : grnas[k].sequence = Slice(sequence, 1, 21)

\* C24 as amended: for the 27-base scenario under SpCas9, find_pam_sites
\* reports the PAM "AGG" at 0-based position 20, its only site, and
\* design_grnas with an admitting GC range yields for it the single
\* candidate with guide sequence[0:20].
C24_ScenarioAmended ==
    /\ (sequence = ScenarioSeq /\ pam_type = SpCas9 /\ pc = "found") =>
            /\ pam_sites = <<20>>
            /\ Slice(sequence, 20, 23) = <<"A", "G", "G">>
    /\ ScenarioDesigned =>
            /\ Len(grnas) = 1
            /\ grnas[1].sequence = Slice(sequence, 0, 20)
            /\ grnas[1].pam = <<"A", "G", "G">>
            /\ grnas[1].position = 0

\* The scenario has been designed with the default GC range of 40-60%.
C24_Witness ==
    /\ ScenarioDesigned
    /\ gc_min = Percent(40)
    /\ gc_max = Percent(60)
    /\ Len(grnas) = 1

\* C25: predict_grna_efficiency and check_off_targets only attach fields:
\* each leaves every candidate's sequence, pam, position and gc_content as
\* they were and the list's length and order as they were,
\* check_off_targets leaves the five score fields of predict_grna_efficiency
\* as they were, and no step changes the input sequence.
C25_StagesOnlyAttach ==
    [][/\ sequence' = sequence
       /\ ((pc = "designed" /\ pc' = "scored") \/ (pc = "scored" /\ pc' = "checked")) =>
            /\ Len(grnas') = Len(grnas)
            /\ \A i \in DOMAIN grnas :
                /\ grnas'[i].sequence = grnas[i].sequence
                /\ grnas'[i].pam = grnas[i].pam
                /\ grnas'[i].gc_content = grnas[i].gc_content
                /\ pc = "designed" =>
                        Same(grnas'[i].position, <<grnas[i].position, 1>>)
                /\ pc = "scored" =>
                        /\ grnas'[i].position = grnas[i].position
                        /\ grnas'[i].efficiency_score = grnas[i].efficiency_score
                        /\ grnas'[i].gc_score = grnas[i].gc_score
                        /\ grnas'[i].self_complementarity = grnas[i].self_complementarity
                        /\ grnas'[i].homopolymer = grnas[i].homopolymer]_vars

\* C27: every candidate that find_pam_sites and then design_grnas gave for
\* a sequence over the bases, checked against that same sequence, has an
\* off_target_score of at least 20, under each of the three profiles.
C27_DesignedCandidatesSelfMatch ==
    (/\ pc = "checked"
     /\ sites_in = pam_sites
     /\ Range(sequence) \subseteq Bases) =>
        \A i \in DOMAIN grnas : Leq(<<20, 1>>, grnas[i].off_target_score)

\* A checked candidate found under Cas12a, with a score from 20 up that is
\* not the ceiling of 100.
C27_Witness ==
    /\ pc = "checked"
    /\ sites_in = pam_sites
    /\ pam_type = Cas12a
    /\ \E i \in DOMAIN grnas :
        /\ Leq(<<20, 1>>, grnas[i].off_target_score)
        /\ Less(grnas[i].off_target_score, <<100, 1>>)

(***************************************************************************)
(* The pages of app.py                                                     *)
(***************************************************************************)
\* The core operations that are handed a sequence.
CoreWithSequence ==
    {"find_pam_sites", "design_grnas", "calculate_all_scores", "check_off_targets"}

\* A cleaned sequence the callers are to let through.
ValidSequence(s) == s # <<>> /\ Range(s) \subseteq Bases

\* C21: on every page (single designer, batch, sequence analysis,
\* visualization) a core operation is only ever invoked with a cleaned
\* sequence that is non-empty and made of A, T, G, C alone.
C21_CoreSeesOnlyValidSequences ==
    \A k \in DOMAIN calls :
        calls[k].op \in CoreWithSequence => ValidSequence(calls[k].sequence)

\* The rows of the file the loop of process_batch_sequences reaches: those
\* with no missing value at or before them.
Reached(i) == \A j \in 1..i : ~file[j].missing

CapMessage == "error: Maximum 100 sequences allowed per batch"

\* C22: process_batch_sequences ends a file of more than 100 rows with the
\* cap's error, no core operation invoked and nothing shown; a file of 100
\* rows or fewer does not get that error, and each row the loop reaches
\* whose cleaned sequence is made of bases is handed to find_pam_sites.
C22_BatchCappedAtHundred ==
    pc = "batch" =>
        /\ Len(file) > 100 => /\ ui = <<CapMessage>>
                              /\ calls = <<>>
                              /\ shown = <<>>
        /\ Len(file) <= 100 =>
              /\ CapMessage \notin Range(ui)
              /\ \A i \in DOMAIN file :
                    (Reached(i) /\ Range(clean(file[i].sequence)) \subseteq Bases) =>
                        \E k \in DOMAIN calls :
                            /\ calls[k].op = "find_pam_sites"
                            /\ calls[k].sequence = clean(file[i].sequence)

\* A file of 101 rows with guides in them was turned away.
C22_Witness ==
    /\ pc = "batch" /\ Len(file) = 101 /\ file[1].sequence = ScenarioSeq
    /\ ui = <<CapMessage>> /\ calls = <<>> /\ shown = <<>>

\* The rows of the file that pass validation.
ValidRow(i) == ~file[i].missing /\ ValidSequence(clean(file[i].sequence))

\* What the pipeline gives for row i of the file, taken alone.
RowResults(i) == batch_row(file[i], i - 1, pam_type, gc_min, gc_max, options).results

\* C23: in a file within the cap, a row that fails validation (a letter
\* that is no base, an empty sequence, a missing value) is skipped and the
\* batch goes on: no file error is raised, no core operation sees such a
\* row, every valid row is handed to find_pam_sites, and the table shows
\* exactly the candidates of the valid rows that reach the threshold.
C23_InvalidRowsSkipped ==
    (pc = "batch" /\ Len(file) <= 100) =>
        /\ "error: Error processing file" \notin Range(ui)
        /\ \A k \in DOMAIN calls : ValidSequence(calls[k].sequence)
        /\ \A i \in DOMAIN file :
              ValidRow(i) =>
                  /\ \E k \in DOMAIN calls :
                        /\ calls[k].op = "find_pam_sites"
                        /\ calls[k].sequence = clean(file[i].sequence)
                  /\ \A n \in DOMAIN RowResults(i) :
                        Leq(options.efficiency_threshold, RowResults(i)[n].efficiency_score)
                            => RowResults(i)[n] \in Range(shown)
        /\ \A n \in DOMAIN shown :
              \E i \in DOMAIN file : ValidRow(i) /\ shown[n] \in Range(RowResults(i))

StageOrder ==
    <<"find_pam_sites", "design_grnas", "predict_grna_efficiency", "check_off_targets">>

\* The stage a logged call belongs to, as an index of StageOrder.
Stage(c) == CHOOSE n \in DOMAIN StageOrder : StageOrder[n] = c.op

\* C26: in process_single_sequence and process_batch_sequences the log of
\* calls is made of runs find_pam_sites, design_grnas,
\* predict_grna_efficiency, check_off_targets on one sequence: a stage other
\* than the first comes right after the stage before it, on the same
\* sequence, and only when that one returned something; and every candidate
\* on the page went through check_off_targets, so it carries both an
\* efficiency_score and an off_target_score.
C26_StagesInOrder ==
    pc \in {"single", "batch"} =>
        /\ \A k \in DOMAIN calls :
              /\ calls[k].op \in Range(StageOrder)
              /\ Stage(calls[k]) > 1 =>
                    /\ k > 1
                    /\ Stage(calls[k - 1]) = Stage(calls[k]) - 1
                    /\ calls[k - 1].sequence = calls[k].sequence
                    /\ calls[k - 1].count > 0
        /\ shown # <<>> =>
              \E k \in DOMAIN calls : calls[k].op = "check_off_targets" /\ calls[k].count > 0
        /\ \A n \in DOMAIN shown :
              {"efficiency_score", "off_target_score"} \subseteq DOMAIN shown[n]

\* A batch with a row that has no PAM site and a row with a guide: the
\* first stops after find_pam_sites, the second runs all four stages and
\* its candidate is on the page.
C26_Witness ==
    /\ pc = "batch" /\ shown # <<>>
    /\ \E k \in DOMAIN calls : calls[k].op = "find_pam_sites" /\ calls[k].count = 0
    /\ \E k \in DOMAIN calls : calls[k].op = "check_off_targets" /\ calls[k].count > 0

====
